---------------------------- MODULE Spec2Model ----------------------------
(***************************************************************************)
(* Model of the Loki boot-image reader                                     *)
(* (libmbbootimg/src/format/loki_reader.cpp).                              *)
(*                                                                         *)
(* Quantities.  File offsets, sizes and load addresses are counted in      *)
(* granules of 2^GranuleBits bytes, so that a uint32_t has 2^(32 -         *)
(* GranuleBits) values and wraps exactly where the C++ value wraps; the    *)
(* images the model draws are those whose lengths, offsets, sizes and      *)
(* addresses are multiples of the granule.  uint64_t sums of a few         *)
(* uint32_t values cannot wrap and are kept as plain integers.  The two    *)
(* offsets cached in the context are never used in arithmetic and are kept *)
(* in bytes.                                                               *)
(*                                                                         *)
(* A byte range that starts on a granule boundary and is shorter than a    *)
(* granule (the Loki header at 0x400, the 4 bytes at page_size + 0x2C, the *)
(* flags byte at gzip + 3, the 4 bytes at shellcode + 59) lies inside a    *)
(* file of whole granules exactly when its granule does.                   *)
(***************************************************************************)
EXTENDS Integers, Sequences, FiniteSets, TLC

GranuleBits == 8

Granule == 2 ^ GranuleBits

\* number of values of a uint32_t, in granules
U32 == 2 ^ (32 - GranuleBits)

\* INT32_MAX + 1, in granules
I32Lim == 2 ^ (31 - GranuleBits)

-----------------------------------------------------------------------------
(* Return codes and format constants                                       *)

RET_OK == 0
RET_WARN == -1
RET_FAILED == -2
RET_FATAL == -3
RET_UNSUPPORTED == -4

LOKI_MAGIC_SIZE == 4
BOOT_MAGIC_SIZE == 8

\* in bytes
LOKI_MAGIC_OFFSET == 1024

\* 0x200, the default aboot stash / fake dt block size, in granules
DEFAULT_ABOOT_SIZE == 512 \div Granule

\* 0x01ff8000, the jflte ramdisk displacement, in granules
JFLTE_RAMDISK_DELTA == 33521664 \div Granule
\* "the default for jflte (- 0x00008000 + 0x02000000)"
JFLTE_KERNEL_OFFSET == 32768 \div Granule
JFLTE_RAMDISK_BASE == 33554432 \div Granule

ENTRY_TYPE_KERNEL == "KERNEL"
ENTRY_TYPE_RAMDISK == "RAMDISK"
ENTRY_TYPE_DEVICE_TREE == "DEVICE_TREE"

-----------------------------------------------------------------------------
(* Integer helpers                                                         *)

RECURSIVE BitAnd(_, _)
BitAnd(a, b) ==
    IF a = 0 \/ b = 0 THEN 0
    ELSE (a % 2) * (b % 2) + 2 * BitAnd(a \div 2, b \div 2)

\* conversion of a uint64_t (or the result of uint32_t arithmetic) to uint32_t
ToU32(x) == x % U32

\* conversion of a uint32_t to int32_t
ToI32(x) == IF x >= I32Lim THEN x - U32 ELSE x

\* a & ~m
AndNot(a, m) == a - BitAnd(a, m)

\* Padding that brings item_size up to the next page boundary, where the
\* boundary is (x + page - 1) & ~(page - 1).
align_page_size(item_size, page_size) ==
    AndNot(item_size + page_size - 1, page_size - 1) - item_size

IsPowerOfTwo(n) == n > 0 /\ BitAnd(n, n - 1) = 0


-----------------------------------------------------------------------------
(* The byte stream                                                         *)
(*                                                                         *)
(* A file is described by what the reader can observe of it: its length,   *)
(* what lies at the Loki header offset, the Android header the locator     *)
(* would decode, the zImage size field behind the header page, the gzip    *)
(* magics and the shellcode occurrences it contains.                       *)
(*                                                                         *)
(* A fault makes the first stream operation issued at one site of the code *)
(* fail, fatally or not.                                                   *)

FaultSites ==
    { "loki_seek", "loki_read", "android_find", "ksize_seek", "ksize_read",
      "gzip_search", "gzip_cb_tell", "gzip_cb_seek", "gzip_cb_read",
      "gzip_cb_restore", "aboot_seek", "shell_search", "shell_seek",
      "shell_read" }

NoFault == [site |-> "none", fatal |-> FALSE]

Faults == {NoFault} \cup [site : FaultSites, fatal : BOOLEAN]

\* file.is_fatal() ? RET_FATAL : RET_FAILED
HardRet(flt) == IF flt.fatal THEN RET_FATAL ELSE RET_FAILED

\* a range shorter than a granule starting at granule off lies inside the file
InFile(im, off) == off < im.len

ZeroLokiHeader == [orig_kernel_size |-> 0, orig_ramdisk_size |-> 0, ramdisk_addr |-> 0]

ZeroAndroidHeader ==
    [page_size |-> 0, kernel_addr |-> 0, lg |-> FALSE, dt_size |-> 0]

-----------------------------------------------------------------------------
(* Locators                                                                *)

\* find_loki_header(): [ret, header, offset, io]; header and offset are
\* written to the out-parameters only when ret = RET_OK.
find_loki_header(im, flt) ==
    IF flt.site = "loki_seek"
    THEN [ret |-> IF flt.fatal THEN RET_FATAL ELSE RET_WARN,
          header |-> ZeroLokiHeader, offset |-> 0, io |-> 1]
    ELSE IF flt.site = "loki_read"
    THEN [ret |-> HardRet(flt), header |-> ZeroLokiHeader, offset |-> 0, io |-> 2]
    ELSE IF ~InFile(im, LOKI_MAGIC_OFFSET \div Granule)
    THEN \* n != sizeof(header)
         [ret |-> RET_WARN, header |-> ZeroLokiHeader, offset |-> 0, io |-> 2]
    ELSE IF ~im.loki_magic
    THEN [ret |-> RET_WARN, header |-> ZeroLokiHeader, offset |-> 0, io |-> 2]
    ELSE [ret |-> RET_OK, header |-> im.loki, offset |-> LOKI_MAGIC_OFFSET, io |-> 2]

\* find_android_header(): scans the first max_offset bytes for the Android
\* magic.  wide is TRUE for android::MAX_HEADER_OFFSET and FALSE for the
\* narrower LOKI_MAX_HEADER_OFFSET.
find_android_header(im, wide, flt) ==
    IF flt.site = "android_find"
    THEN [ret |-> HardRet(flt), header |-> ZeroAndroidHeader, offset |-> 0, io |-> 1]
    ELSE IF im.android_where = "near" \/ (wide /\ im.android_where = "far")
    THEN [ret |-> RET_OK, header |-> im.android, offset |-> im.android_offset, io |-> 1]
    ELSE [ret |-> RET_WARN, header |-> ZeroAndroidHeader, offset |-> 0, io |-> 1]

\* is_lg_ramdisk_address(hdr.ramdisk_addr)
is_lg_ramdisk_address(hdr) == hdr.lg

-----------------------------------------------------------------------------
(* Ramdisk address                                                         *)

\* loki_find_ramdisk_address(): [ret, addr, io]
\* mutation: the jflte default is added without the overflow check
loki_find_ramdisk_address_wrap(im, hdr, loki_hdr, flt) ==
    IF loki_hdr.ramdisk_addr # 0
    THEN IF flt.site = "shell_search"
         THEN [ret |-> HardRet(flt), addr |-> 0, io |-> 1]
         ELSE LET offset == IF Len(im.shell) > 0 THEN im.shell[1].off ELSE 0
              IN IF offset = 0
                 THEN [ret |-> RET_WARN, addr |-> 0, io |-> 1]
                 ELSE IF flt.site = "shell_seek"
                 THEN [ret |-> HardRet(flt), addr |-> 0, io |-> 2]
                 ELSE IF flt.site = "shell_read"
                 THEN [ret |-> HardRet(flt), addr |-> 0, io |-> 3]
                 ELSE IF ~InFile(im, offset)
                 THEN [ret |-> RET_WARN, addr |-> 0, io |-> 3]
                 ELSE [ret |-> RET_OK, addr |-> im.shell[1].addr, io |-> 3]
    ELSE [ret |-> RET_OK, addr |-> ToU32(hdr.kernel_addr + JFLTE_RAMDISK_DELTA),
          io |-> 0]

loki_find_ramdisk_address(im, hdr, loki_hdr, flt) ==
    IF loki_hdr.ramdisk_addr # 0
    THEN IF flt.site = "shell_search"
         THEN [ret |-> HardRet(flt), addr |-> 0, io |-> 1]
         ELSE LET \* max_matches = 1: the callback sees the first match only
                  offset == IF Len(im.shell) > 0 THEN im.shell[1].off ELSE 0
              IN IF offset = 0
                 THEN [ret |-> RET_WARN, addr |-> 0, io |-> 1]
                 ELSE IF flt.site = "shell_seek"
                 THEN [ret |-> HardRet(flt), addr |-> 0, io |-> 2]
                 ELSE IF flt.site = "shell_read"
                 THEN [ret |-> HardRet(flt), addr |-> 0, io |-> 3]
                 ELSE IF ~InFile(im, offset)
                 THEN [ret |-> RET_WARN, addr |-> 0, io |-> 3]
                 ELSE [ret |-> RET_OK, addr |-> im.shell[1].addr, io |-> 3]
    ELSE IF hdr.kernel_addr > (U32 - 1) - JFLTE_RAMDISK_DELTA
         THEN [ret |-> RET_WARN, addr |-> 0, io |-> 0]
         ELSE [ret |-> RET_OK, addr |-> hdr.kernel_addr + JFLTE_RAMDISK_DELTA, io |-> 0]

-----------------------------------------------------------------------------
(* Old-style images: gzip offset, ramdisk size, kernel size                *)

EmptySearchResult ==
    [have_flag0 |-> FALSE, have_flag8 |-> FALSE, flag0_offset |-> 0, flag8_offset |-> 0]

\* The matches file_search() reports: the gzip magics at or after
\* start_offset, in file order.
GzipMatches(im, start_offset) ==
    SelectSeq(im.gzips, LAMBDA g : g.off >= start_offset)

\* result_cb of loki_old_find_gzip_offset(), applied to the matches from the
\* i-th on until it stops or fails: [ok, result, io].
RECURSIVE GzipScan(_, _, _, _, _)
GzipScan(im, cands, i, result, flt) ==
    IF i > Len(cands)
    THEN [ok |-> TRUE, result |-> result, io |-> 0]
    ELSE IF result.have_flag0 /\ result.have_flag8
    THEN [ok |-> TRUE, result |-> result, io |-> 0]
    ELSE IF flt.site = "gzip_cb_tell"
    THEN [ok |-> FALSE, result |-> result, io |-> 1]
    ELSE IF flt.site = "gzip_cb_seek"
    THEN [ok |-> FALSE, result |-> result, io |-> 2]
    ELSE IF flt.site = "gzip_cb_read"
    THEN [ok |-> FALSE, result |-> result, io |-> 3]
    ELSE IF ~InFile(im, cands[i].off)
    THEN \* EOF
         [ok |-> TRUE, result |-> result, io |-> 3]
    ELSE LET flags == cands[i].flags
             offset == cands[i].off
             updated ==
                 IF ~result.have_flag0 /\ flags = 0
                 THEN [result EXCEPT !.have_flag0 = TRUE, !.flag0_offset = offset]
                 ELSE IF ~result.have_flag8 /\ flags = 8
                 THEN [result EXCEPT !.have_flag8 = TRUE, !.flag8_offset = offset]
                 ELSE result
         IN IF flt.site = "gzip_cb_restore"
            THEN [ok |-> FALSE, result |-> updated, io |-> 4]
            ELSE LET rest == GzipScan(im, cands, i + 1, updated, flt)
                 IN [ok |-> rest.ok, result |-> rest.result, io |-> 4 + rest.io]

\* mutation: a header with flags 0x00 is preferred to one with flags 0x08
loki_old_find_gzip_offset_prefer0(im, start_offset, flt) ==
    IF flt.site = "gzip_search"
    THEN [ret |-> HardRet(flt), gzip_offset |-> 0, io |-> 1]
    ELSE LET scan == GzipScan(im, GzipMatches(im, start_offset), 1,
                              EmptySearchResult, flt)
         IN IF ~scan.ok
            THEN [ret |-> HardRet(flt), gzip_offset |-> 0, io |-> 1 + scan.io]
            ELSE IF scan.result.have_flag0
            THEN [ret |-> RET_OK, gzip_offset |-> scan.result.flag0_offset,
                  io |-> 1 + scan.io]
            ELSE IF scan.result.have_flag8
            THEN [ret |-> RET_OK, gzip_offset |-> scan.result.flag8_offset,
                  io |-> 1 + scan.io]
            ELSE [ret |-> RET_WARN, gzip_offset |-> 0, io |-> 1 + scan.io]

\* loki_old_find_gzip_offset(): [ret, gzip_offset, io]
loki_old_find_gzip_offset(im, start_offset, flt) ==
    IF flt.site = "gzip_search"
    THEN [ret |-> HardRet(flt), gzip_offset |-> 0, io |-> 1]
    ELSE LET scan == GzipScan(im, GzipMatches(im, start_offset), 1,
                              EmptySearchResult, flt)
         IN IF ~scan.ok
            THEN [ret |-> HardRet(flt), gzip_offset |-> 0, io |-> 1 + scan.io]
            ELSE IF scan.result.have_flag8
            THEN [ret |-> RET_OK, gzip_offset |-> scan.result.flag8_offset,
                  io |-> 1 + scan.io]
            ELSE IF scan.result.have_flag0
            THEN [ret |-> RET_OK, gzip_offset |-> scan.result.flag0_offset,
                  io |-> 1 + scan.io]
            ELSE [ret |-> RET_WARN, gzip_offset |-> 0, io |-> 1 + scan.io]

\* mutation: the ramdisk offset is not compared with the aboot offset
loki_old_find_ramdisk_size_nocheck(im, hdr, ramdisk_offset, flt) ==
    LET aboot_size == IF is_lg_ramdisk_address(hdr)
                      THEN ToI32(hdr.page_size)
                      ELSE DEFAULT_ABOOT_SIZE
        aboot_offset == im.len - aboot_size
    IN IF flt.site = "aboot_seek"
       THEN [ret |-> HardRet(flt), ramdisk_size |-> 0, io |-> 1]
       ELSE IF aboot_offset < 0
       THEN [ret |-> RET_FAILED, ramdisk_size |-> 0, io |-> 1]
       ELSE [ret |-> RET_OK, ramdisk_size |-> ToU32(aboot_offset - ramdisk_offset),
             io |-> 1]

\* loki_old_find_ramdisk_size(): [ret, ramdisk_size, io].  ramdisk_offset
\* is the uint32_t parameter.  A seek to a negative position fails.
loki_old_find_ramdisk_size(im, hdr, ramdisk_offset, flt) ==
    LET aboot_size == IF is_lg_ramdisk_address(hdr)
                      THEN ToI32(hdr.page_size)
                      ELSE DEFAULT_ABOOT_SIZE
        aboot_offset == im.len - aboot_size
    IN IF flt.site = "aboot_seek"
       THEN [ret |-> HardRet(flt), ramdisk_size |-> 0, io |-> 1]
       ELSE IF aboot_offset < 0
       THEN [ret |-> RET_FAILED, ramdisk_size |-> 0, io |-> 1]
       ELSE IF ramdisk_offset > aboot_offset
       THEN [ret |-> RET_FAILED, ramdisk_size |-> 0, io |-> 1]
       ELSE [ret |-> RET_OK, ramdisk_size |-> ToU32(aboot_offset - ramdisk_offset),
             io |-> 1]

\* find_linux_kernel_size(): [ret, kernel_size, io]
find_linux_kernel_size(im, kernel_offset, flt) ==
    IF flt.site = "ksize_seek"
    THEN [ret |-> HardRet(flt), kernel_size |-> 0, io |-> 1]
    ELSE IF flt.site = "ksize_read"
    THEN [ret |-> HardRet(flt), kernel_size |-> 0, io |-> 2]
    ELSE IF ~InFile(im, kernel_offset)
    THEN [ret |-> RET_WARN, kernel_size |-> 0, io |-> 2]
    ELSE [ret |-> RET_OK, kernel_size |-> im.zsize, io |-> 2]

-----------------------------------------------------------------------------
(* Reconstructors                                                          *)
(*                                                                         *)
(* Both return [ret, header, kernel_offset, kernel_size, ramdisk_offset,   *)
(* ramdisk_size, dt_offset, io].  The Header setters are given the fields  *)
(* the reconstructor has just declared supported, so RET_UNSUPPORTED does  *)
(* not arise.  The board name, command line, second and tags addresses are *)
(* copied through and not modelled.                                        *)

\* mutation: the page size is not checked
PageSizeRejected_never(hdr) == FALSE

\* "Page size cannot be 0"
PageSizeRejected(hdr) == hdr.page_size = 0

NoHeader == [page_size |-> 0, kernel_address |-> 0, ramdisk_address |-> 0]

ReconFail(ret, io) ==
    [ret |-> ret, header |-> NoHeader, kernel_offset |-> 0, kernel_size |-> 0,
     ramdisk_offset |-> 0, ramdisk_size |-> 0, dt_offset |-> 0, io |-> io]

\* the uint32_t start_offset handed to loki_old_find_gzip_offset()
OldGzipStart(hdr, kernel_size) ==
    ToU32(ToU32(hdr.page_size + kernel_size)
          + align_page_size(kernel_size, hdr.page_size))

loki_read_old_header(im, hdr, loki_hdr, flt) ==
    IF PageSizeRejected(hdr)
    THEN ReconFail(RET_WARN, 0)
    ELSE
    LET ks == find_linux_kernel_size(im, hdr.page_size, flt) IN
    IF ks.ret # RET_OK THEN ReconFail(ks.ret, ks.io) ELSE
    LET gz == loki_old_find_gzip_offset(im, OldGzipStart(hdr, ks.kernel_size), flt) IN
    IF gz.ret # RET_OK THEN ReconFail(gz.ret, ks.io + gz.io) ELSE
    LET rs == loki_old_find_ramdisk_size(im, hdr, ToU32(gz.gzip_offset), flt) IN
    IF rs.ret # RET_OK THEN ReconFail(rs.ret, ks.io + gz.io + rs.io) ELSE
    LET ra == loki_find_ramdisk_address(im, hdr, loki_hdr, flt) IN
    IF ra.ret # RET_OK THEN ReconFail(ra.ret, ks.io + gz.io + rs.io + ra.io) ELSE
    [ret |-> RET_OK,
     header |-> [page_size |-> hdr.page_size, kernel_address |-> hdr.kernel_addr,
                 ramdisk_address |-> ra.addr],
     kernel_offset |-> hdr.page_size,
     kernel_size |-> ks.kernel_size,
     ramdisk_offset |-> gz.gzip_offset,
     ramdisk_size |-> rs.ramdisk_size,
     dt_offset |-> 0,
     io |-> ks.io + gz.io + rs.io + ra.io]

\* mutation: the page size is checked after the ramdisk address was looked up
loki_read_new_header_late(im, hdr, loki_hdr, flt) ==
    LET ra == loki_find_ramdisk_address(im, hdr, loki_hdr, flt) IN
    IF ra.ret # RET_OK THEN ReconFail(ra.ret, ra.io) ELSE
    IF PageSizeRejected(hdr) THEN ReconFail(RET_WARN, ra.io) ELSE
    LET fake_size == IF is_lg_ramdisk_address(hdr) THEN hdr.page_size
                     ELSE DEFAULT_ABOOT_SIZE
        kernel_offset == hdr.page_size
        pos1 == kernel_offset + loki_hdr.orig_kernel_size
        ramdisk_offset == pos1 + align_page_size(pos1, hdr.page_size)
        pos2 == ramdisk_offset + loki_hdr.orig_ramdisk_size
        pos3 == pos2 + align_page_size(pos2, hdr.page_size)
        dt_offset == IF hdr.dt_size # 0 THEN pos3 + fake_size ELSE pos3
    IN
    [ret |-> RET_OK,
     header |-> [page_size |-> hdr.page_size, kernel_address |-> hdr.kernel_addr,
                 ramdisk_address |-> ra.addr],
     kernel_offset |-> kernel_offset,
     kernel_size |-> loki_hdr.orig_kernel_size,
     ramdisk_offset |-> ramdisk_offset,
     ramdisk_size |-> loki_hdr.orig_ramdisk_size,
     dt_offset |-> dt_offset,
     io |-> ra.io]

\* mutation: the placeholder before the device tree is left out
loki_read_new_header_nofake(im, hdr, loki_hdr, flt) ==
    IF PageSizeRejected(hdr)
    THEN ReconFail(RET_WARN, 0)
    ELSE
    LET ra == loki_find_ramdisk_address(im, hdr, loki_hdr, flt) IN
    IF ra.ret # RET_OK THEN ReconFail(ra.ret, ra.io) ELSE
    LET kernel_offset == hdr.page_size
        pos1 == kernel_offset + loki_hdr.orig_kernel_size
        ramdisk_offset == pos1 + align_page_size(pos1, hdr.page_size)
        pos2 == ramdisk_offset + loki_hdr.orig_ramdisk_size
        pos3 == pos2 + align_page_size(pos2, hdr.page_size)
    IN
    [ret |-> RET_OK,
     header |-> [page_size |-> hdr.page_size, kernel_address |-> hdr.kernel_addr,
                 ramdisk_address |-> ra.addr],
     kernel_offset |-> kernel_offset,
     kernel_size |-> loki_hdr.orig_kernel_size,
     ramdisk_offset |-> ramdisk_offset,
     ramdisk_size |-> loki_hdr.orig_ramdisk_size,
     dt_offset |-> pos3,
     io |-> ra.io]

loki_read_new_header(im, hdr, loki_hdr, flt) ==
    IF PageSizeRejected(hdr)
    THEN ReconFail(RET_WARN, 0)
    ELSE
    LET fake_size == IF is_lg_ramdisk_address(hdr) THEN hdr.page_size
                     ELSE DEFAULT_ABOOT_SIZE
        ra == loki_find_ramdisk_address(im, hdr, loki_hdr, flt)
    IN
    IF ra.ret # RET_OK THEN ReconFail(ra.ret, ra.io) ELSE
    LET kernel_offset == hdr.page_size
        pos1 == kernel_offset + loki_hdr.orig_kernel_size
        ramdisk_offset == pos1 + align_page_size(pos1, hdr.page_size)
        pos2 == ramdisk_offset + loki_hdr.orig_ramdisk_size
        pos3 == pos2 + align_page_size(pos2, hdr.page_size)
        dt_offset == IF hdr.dt_size # 0 THEN pos3 + fake_size ELSE pos3
    IN
    [ret |-> RET_OK,
     header |-> [page_size |-> hdr.page_size, kernel_address |-> hdr.kernel_addr,
                 ramdisk_address |-> ra.addr],
     kernel_offset |-> kernel_offset,
     kernel_size |-> loki_hdr.orig_kernel_size,
     ramdisk_offset |-> ramdisk_offset,
     ramdisk_size |-> loki_hdr.orig_ramdisk_size,
     dt_offset |-> dt_offset,
     io |-> ra.io]

-----------------------------------------------------------------------------
(* Segment table                                                           *)

entries_clear(seg) == << >>

entries_add(seg, type, offset, size) ==
    Append(seg, [type |-> type, offset |-> offset, size |-> size])

-----------------------------------------------------------------------------
(* Reader entry points                                                     *)
(*                                                                         *)
(* Each returns the context it leaves behind and a record of the call:     *)
(* the return value, the locators it invoked in order, the reconstructor   *)
(* it dispatched to, the stream operations issued in all (io) and by the   *)
(* reconstructor (recon_io), and the header handed back to the caller.     *)

\* mutation: the test forgets loki_hdr.ramdisk_addr
IsNewStyle_noaddr(loki_hdr) ==
    /\ loki_hdr.orig_kernel_size # 0
    /\ loki_hdr.orig_ramdisk_size # 0

\* the three-field test of loki_reader_read_header()
IsNewStyle(loki_hdr) ==
    /\ loki_hdr.orig_kernel_size # 0
    /\ loki_hdr.orig_ramdisk_size # 0
    /\ loki_hdr.ramdisk_addr # 0

BidThreshold == (BOOT_MAGIC_SIZE + LOKI_MAGIC_SIZE) * 8

CallRecord(op, best_bid, ret, scans, recon, recon_io, io, header) ==
    [op |-> op, best_bid |-> best_bid, ret |-> ret, scans |-> scans,
     recon |-> recon, recon_io |-> recon_io, io |-> io, header |-> header]

Scan(loc, ret) == [loc |-> loc, ret |-> ret]

\* mutation: the bid that is declined must exceed the threshold
BidDeclined_strict(best_bid) == best_bid > BidThreshold

\* the "cannot win" test of loki_reader_bid()
BidDeclined(best_bid) == best_bid >= BidThreshold

\* mutation: a missing Android magic keeps the bits of the Loki magic
BidReturn_keep(loki_ret, android_ret) ==
    IF loki_ret = RET_OK
    THEN IF android_ret = RET_OK
         THEN LOKI_MAGIC_SIZE * 8 + BOOT_MAGIC_SIZE * 8
         ELSE IF android_ret = RET_WARN THEN LOKI_MAGIC_SIZE * 8 ELSE android_ret
    ELSE IF loki_ret = RET_WARN THEN 0 ELSE loki_ret

\* what loki_reader_bid() returns, given what the Loki locator returned and,
\* when it returned RET_OK, what the Android locator returned
BidReturn(loki_ret, android_ret) ==
    IF loki_ret = RET_OK
    THEN IF android_ret = RET_OK
         THEN LOKI_MAGIC_SIZE * 8 + BOOT_MAGIC_SIZE * 8
         ELSE IF android_ret = RET_WARN THEN 0 ELSE android_ret
    ELSE IF loki_ret = RET_WARN THEN 0 ELSE loki_ret

loki_reader_bid(c, im, best_bid, flt) ==
    IF BidDeclined(best_bid)
    THEN [ctx |-> c,
          call |-> CallRecord("bid", best_bid, RET_WARN, << >>, "none", 0, 0, NoHeader)]
    ELSE
    LET lk == find_loki_header(im, flt) IN
    IF lk.ret # RET_OK
    THEN [ctx |-> c,
          call |-> CallRecord("bid", best_bid, BidReturn(lk.ret, RET_OK),
                              <<Scan("loki", lk.ret)>>, "none", 0, lk.io, NoHeader)]
    ELSE
    LET c1 == [c EXCEPT !.loki_hdr = lk.header, !.loki_offset = lk.offset,
                        !.have_loki_offset = TRUE]
        an == find_android_header(im, FALSE, flt)
        c2 == IF an.ret = RET_OK
              THEN [c1 EXCEPT !.hdr = an.header, !.header_offset = an.offset,
                              !.have_header_offset = TRUE]
              ELSE c1
    IN [ctx |-> c2,
        call |-> CallRecord("bid", best_bid, BidReturn(lk.ret, an.ret),
                            <<Scan("loki", lk.ret), Scan("android", an.ret)>>,
                            "none", 0, lk.io + an.io, NoHeader)]

\* mutation: the table is not cleared first
InstallSegments_noclear(c, rc) ==
    LET s1 == entries_add(c.seg, ENTRY_TYPE_KERNEL, rc.kernel_offset, rc.kernel_size)
        s2 == entries_add(s1, ENTRY_TYPE_RAMDISK, rc.ramdisk_offset, rc.ramdisk_size)
    IN IF c.hdr.dt_size > 0 /\ rc.dt_offset # 0
       THEN entries_add(s2, ENTRY_TYPE_DEVICE_TREE, rc.dt_offset, c.hdr.dt_size)
       ELSE s2

\* the part of loki_reader_read_header() that installs the segments
InstallSegments(c, rc) ==
    LET s0 == entries_clear(c.seg)
        s1 == entries_add(s0, ENTRY_TYPE_KERNEL, rc.kernel_offset, rc.kernel_size)
        s2 == entries_add(s1, ENTRY_TYPE_RAMDISK, rc.ramdisk_offset, rc.ramdisk_size)
    IN IF c.hdr.dt_size > 0 /\ rc.dt_offset # 0
       THEN entries_add(s2, ENTRY_TYPE_DEVICE_TREE, rc.dt_offset, c.hdr.dt_size)
       ELSE s2

\* mutation: read_header always looks for the Loki header
NeedLoki_always(c) == TRUE

\* read_header looks for a header only when the context does not hold it
NeedLoki(c) == ~c.have_loki_offset

NeedAndroid(c) == ~c.have_header_offset

loki_reader_read_header(c, im, flt) ==
    LET need_loki == NeedLoki(c)
        lk == find_loki_header(im, flt)
    IN
    IF need_loki /\ lk.ret < 0
    THEN [ctx |-> c,
          call |-> CallRecord("read_header", 0, lk.ret, <<Scan("loki", lk.ret)>>,
                              "none", 0, lk.io, NoHeader)]
    ELSE
    LET \* the locator's offset_out is ctx->header_offset here
        c1 == IF need_loki
              THEN [c EXCEPT !.loki_hdr = lk.header, !.header_offset = lk.offset,
                             !.have_loki_offset = TRUE]
              ELSE c
        scans1 == IF need_loki THEN <<Scan("loki", lk.ret)>> ELSE << >>
        io1 == IF need_loki THEN lk.io ELSE 0
        need_android == NeedAndroid(c1)
        an == find_android_header(im, TRUE, flt)
    IN
    IF need_android /\ an.ret < 0
    THEN [ctx |-> c1,
          call |-> CallRecord("read_header", 0, an.ret,
                              Append(scans1, Scan("android", an.ret)),
                              "none", 0, io1 + an.io, NoHeader)]
    ELSE
    LET c2 == IF need_android
              THEN [c1 EXCEPT !.hdr = an.header, !.header_offset = an.offset,
                              !.have_header_offset = TRUE]
              ELSE c1
        scans2 == IF need_android THEN Append(scans1, Scan("android", an.ret))
                  ELSE scans1
        io2 == IF need_android THEN io1 + an.io ELSE io1
        recon == IF IsNewStyle(c2.loki_hdr) THEN "new" ELSE "old"
        rc == IF IsNewStyle(c2.loki_hdr)
              THEN loki_read_new_header(im, c2.hdr, c2.loki_hdr, flt)
              ELSE loki_read_old_header(im, c2.hdr, c2.loki_hdr, flt)
    IN
    IF rc.ret < 0
    THEN [ctx |-> c2,
          call |-> CallRecord("read_header", 0, rc.ret, scans2, recon, rc.io,
                              io2 + rc.io, NoHeader)]
    ELSE [ctx |-> [c2 EXCEPT !.seg = InstallSegments(c2, rc)],
          call |-> CallRecord("read_header", 0, RET_OK, scans2, recon, rc.io,
                              io2 + rc.io, rc.header)]

-----------------------------------------------------------------------------
(* The images the model draws                                              *)

\* a file too short for the Loki header, a small file, a file beyond 4 GiB
Lens == {LOKI_MAGIC_OFFSET \div Granule, 128, U32 + 128}

\* a nonzero load address (0x82000000)
SomeAddr == U32 \div 2 + U32 \div 128

LokiHeaders ==
    { ZeroLokiHeader,
      [orig_kernel_size |-> 48, orig_ramdisk_size |-> 32, ramdisk_addr |-> 0],
      [orig_kernel_size |-> 0, orig_ramdisk_size |-> 0, ramdisk_addr |-> SomeAddr],
      [orig_kernel_size |-> 50, orig_ramdisk_size |-> 33, ramdisk_addr |-> SomeAddr],
      [orig_kernel_size |-> 256, orig_ramdisk_size |-> 32, ramdisk_addr |-> SomeAddr] }

\* zero, not a power of two, 0x800-like, and above INT32_MAX (0xC0000000)
PageSizes == {0, 3, 8, 3 * (U32 \div 4)}

\* 0x10008000
JflteKernelAddr == 268468224 \div Granule

KernelAddrs == {JflteKernelAddr, U32 - 128}

DtSizes == {0, 16}

AndroidHeaders ==
    [page_size : PageSizes, kernel_addr : KernelAddrs, lg : BOOLEAN, dt_size : DtSizes]

\* the value of the zImage size field: a small kernel, and one that makes
\* page_size + kernel_size exceed UINT32_MAX
ZSizes == {48, U32 - 4}

Gz(off, flags) == [off |-> off, flags |-> flags]

GzipLists ==
    { << >>,
      <<Gz(64, 8)>>,
      <<Gz(64, 0), Gz(80, 8)>>,
      <<Gz(64, 8), Gz(80, 0), Gz(96, 8)>>,
      <<Gz(64, 8), Gz(80, 8)>>,
      <<Gz(16, 8), Gz(64, 0), Gz(80, 0)>>,
      <<Gz(64, 1)>>,
      <<Gz(127, 0)>>,
      <<Gz(U32 + 16, 8)>>,
      <<Gz(U32 + 127, 8)>> }

Sh(off, addr) == [off |-> off, addr |-> addr]

ShellLists ==
    { << >>,
      <<Sh(0, SomeAddr - 16)>>,
      <<Sh(24, SomeAddr - 16)>>,
      <<Sh(24, SomeAddr - 16), Sh(28, SomeAddr - 32)>> }

AllImages ==
    [len : Lens, loki_magic : BOOLEAN, loki : LokiHeaders,
     android_where : {"none", "near", "far"}, android_offset : {0, 64},
     android : AndroidHeaders \cup {ZeroAndroidHeader},
     zsize : ZSizes, gzips : GzipLists, shell : ShellLists]

\* Everything an image contains lies inside it.
WellFormed(im) ==
    /\ \A i \in 1..Len(im.gzips) : InFile(im, im.gzips[i].off)
    /\ \A i \in 1..Len(im.shell) : InFile(im, im.shell[i].off)
    /\ im.loki_magic => InFile(im, LOKI_MAGIC_OFFSET \div Granule)
    \* a shellcode at offset 0 fills the window in which a bid looks for
    \* the Android header
    /\ (\E i \in 1..Len(im.shell) : im.shell[i].off = 0) => im.android_where # "near"

\* Of the images that differ only in parts the reader never looks at, one
\* representative is kept; the others vary one part at a time around a plain
\* jflte image.
Representative(im) ==
    LET loki_ok == im.loki_magic
        android_ok == loki_ok /\ im.android_where # "none"
        recon == android_ok /\ im.android.page_size # 0
        new == recon /\ IsNewStyle(im.loki)
        old == recon /\ ~IsNewStyle(im.loki)
        plain_hdr == /\ im.android.kernel_addr = JflteKernelAddr
                     /\ ~im.android.lg /\ im.android.dt_size = 0
                     /\ im.android.page_size = 8
        plain_old == im.zsize = 48 /\ im.gzips = <<Gz(64, 8)>>
        large == im.len > U32
    IN /\ ~loki_ok => im.loki = ZeroLokiHeader
       /\ ~android_ok => im.android = ZeroAndroidHeader /\ im.android_where = "none"
       /\ android_ok => im.android \in AndroidHeaders
       /\ im.android_offset = (IF im.android_where = "far" THEN 64 ELSE 0)
       /\ im.android_where = "far" =>
              /\ plain_hdr
              /\ old => plain_old
              /\ \/ old /\ im.loki = ZeroLokiHeader
                 \/ im.shell = <<Sh(0, SomeAddr - 16)>> /\ im.loki.orig_kernel_size # 256
       /\ (android_ok /\ ~recon) =>
              /\ im.android.kernel_addr = JflteKernelAddr
              /\ ~im.android.lg /\ im.android.dt_size = 0
              /\ im.loki \in {ZeroLokiHeader,
                              [orig_kernel_size |-> 50, orig_ramdisk_size |-> 33,
                               ramdisk_addr |-> SomeAddr]}
       /\ im.android.kernel_addr # JflteKernelAddr =>
              /\ im.android.page_size = 8 /\ ~im.android.lg /\ im.android.dt_size = 0
              /\ im.loki = ZeroLokiHeader /\ plain_old
       /\ ~old => im.zsize = 48 /\ im.gzips = << >>
       /\ (old /\ im.loki # ZeroLokiHeader) => plain_hdr /\ plain_old
       /\ (old /\ im.android.dt_size # 0) =>
              im.android.page_size = 8 /\ ~im.android.lg /\ plain_old
       /\ (old /\ im.zsize # 48) =>
              /\ im.android.page_size = 8 /\ ~im.android.lg
              /\ im.gzips \in {<< >>, <<Gz(64, 8)>>}
       /\ ~(android_ok /\ im.loki.ramdisk_addr # 0) => im.shell = << >>
       /\ (android_ok /\ ~recon /\ im.loki.ramdisk_addr # 0) =>
              im.shell = <<Sh(24, SomeAddr - 16)>>
       /\ (new /\ im.shell # <<Sh(24, SomeAddr - 16)>>) => plain_hdr
       /\ (new /\ im.loki.orig_kernel_size = 256) => im.android.page_size = 8
       /\ large =>
              /\ old /\ im.loki = ZeroLokiHeader /\ im.zsize = 48
              /\ im.android.dt_size = 0
              /\ \/ im.android.page_size > 8
                 \/ \E i \in 1..Len(im.gzips) : im.gzips[i].off > U32

Images == {im \in AllImages : WellFormed(im) /\ Representative(im)}

-----------------------------------------------------------------------------
(* State                                                                   *)

VARIABLES
    img,    \* the file behind the stream
    ctx,    \* LokiReaderCtx
    last,   \* record of the last call made on the reader
    fault   \* the stream failure that changed the course of the last call

vars == <<img, ctx, last, fault>>

\* new LokiReaderCtx()
NewCtx ==
    [loki_hdr |-> ZeroLokiHeader, hdr |-> ZeroAndroidHeader,
     have_loki_offset |-> FALSE, loki_offset |-> 0,
     have_header_offset |-> FALSE, header_offset |-> 0,
     seg |-> << >>]

NoCall == CallRecord("none", 0, RET_OK, << >>, "none", 0, 0, NoHeader)

\* the best bids the dispatcher passes in
BestBids == {BidThreshold - 1, BidThreshold}

\* the faults that can strike the operations a bid issues
BidFaults ==
    {NoFault} \cup [site : {"loki_seek", "loki_read", "android_find"}, fatal : BOOLEAN]

Init ==
    /\ img \in Images
    /\ ctx = NewCtx
    /\ last = NoCall
    /\ fault = NoFault

\* A failing stream operation is seen by the call exactly when the call does
\* not run as it does on a stream without failures.
Bid ==
    \E best_bid \in BestBids :
        LET r0 == loki_reader_bid(ctx, img, best_bid, NoFault)
        IN \E flt \in BidFaults :
            LET r == loki_reader_bid(ctx, img, best_bid, flt)
            IN /\ ctx' = r.ctx
               /\ last' = r.call
               /\ fault' = IF r = r0 THEN NoFault ELSE flt
               /\ UNCHANGED img

ReadHeader ==
    LET r0 == loki_reader_read_header(ctx, img, NoFault)
    IN \E flt \in Faults :
        LET r == loki_reader_read_header(ctx, img, flt)
        IN /\ ctx' = r.ctx
           /\ last' = r.call
           /\ fault' = IF r = r0 THEN NoFault ELSE flt
           /\ UNCHANGED img

Next == Bid \/ ReadHeader

Spec == Init /\ [][Next]_vars

-----------------------------------------------------------------------------
(* Properties                                                              *)

FullBid == (LOKI_MAGIC_SIZE + BOOT_MAGIC_SIZE) * 8

\* the scans of the last call that returned ret
ScansWith(ret) == {i \in 1..Len(last.scans) : last.scans[i].ret = ret}

ScanLocs(scans) == [i \in 1..Len(scans) |-> scans[i].loc]

SegTypes(seg) == [i \in 1..Len(seg) |-> seg[i].type]

Accepted == last.op = "read_header" /\ last.ret = RET_OK

\* C1: a non-negative bid is 0, LOKI_MAGIC_SIZE * 8 or (LOKI_MAGIC_SIZE +
\* BOOT_MAGIC_SIZE) * 8; it is the full sum exactly when both locators
\* returned RET_OK, and it is 0 whenever a locator returned RET_WARN.
C1_BidScore ==
    last.op = "bid" =>
        /\ last.ret >= 0 =>
               /\ last.ret \in {0, LOKI_MAGIC_SIZE * 8, FullBid}
               /\ last.ret = FullBid <=>
                      (Len(last.scans) = 2 /\ ScansWith(RET_OK) = {1, 2})
        /\ ScansWith(RET_WARN) # {} => last.ret = 0

C1_Witness ==
    /\ last.op = "bid" /\ last.ret = 0
    /\ ScanLocs(last.scans) = <<"loki", "android">>
    /\ last.scans[1].ret = RET_OK /\ last.scans[2].ret = RET_WARN

\* C2: a bid called with best_bid >= (BOOT_MAGIC_SIZE + LOKI_MAGIC_SIZE) * 8
\* returns RET_WARN, invokes no locator, issues no stream operation and
\* leaves the context as it was.
C2_DeclinedBid ==
    [][(last'.op = "bid" /\ last'.best_bid >= BidThreshold) =>
           /\ last'.ret = RET_WARN
           /\ last'.scans = << >>
           /\ last'.io = 0
           /\ ctx' = ctx]_vars

C2_Witness ==
    /\ last.op = "bid" /\ last.best_bid >= BidThreshold /\ last.ret = RET_WARN
    /\ ctx.have_loki_offset /\ ctx.have_header_offset

\* C3: read_header invokes the Loki locator only if the context does not hold
\* the Loki header, and the Android locator only if it does not hold the
\* Android header; with both held it scans nothing and goes on to
\* reconstruct from the held headers; with neither held it runs the Loki
\* locator first and the Android locator after it.
C3_ScansOnlyWhenMissing ==
    [][last'.op = "read_header" =>
           LET locs == ScanLocs(last'.scans)
               ran(l) == \E i \in 1..Len(locs) : locs[i] = l
           IN /\ ran("loki") => ~ctx.have_loki_offset
              /\ ran("android") => ~ctx.have_header_offset
              /\ (ctx.have_loki_offset /\ ctx.have_header_offset) =>
                     /\ locs = << >>
                     /\ last'.recon # "none"
                     /\ ctx'.loki_hdr = ctx.loki_hdr /\ ctx'.hdr = ctx.hdr
              /\ (~ctx.have_loki_offset /\ ~ctx.have_header_offset) =>
                     /\ locs \in {<<"loki">>, <<"loki", "android">>}
                     /\ (last'.scans[1].ret = RET_OK <=> locs = <<"loki", "android">>)]_vars

C3_Witness ==
    /\ last.op = "read_header" /\ last.scans = << >> /\ last.ret = RET_OK

\* C4: whenever the Loki header is marked present, loki_offset is 0x400.
C4_LokiOffset ==
    ctx.have_loki_offset => ctx.loki_offset = LOKI_MAGIC_OFFSET

\* C5: read_header dispatches to the new-image reconstructor when
\* orig_kernel_size, orig_ramdisk_size and ramdisk_addr of the Loki header
\* are all nonzero, and to the old-image reconstructor when one of them is
\* zero.
C5_Dispatch ==
    (last.op = "read_header" /\ last.recon # "none") =>
        LET h == ctx.loki_hdr
            all_nonzero == /\ h.orig_kernel_size # 0
                           /\ h.orig_ramdisk_size # 0
                           /\ h.ramdisk_addr # 0
            some_zero == \/ h.orig_kernel_size = 0
                         \/ h.orig_ramdisk_size = 0
                         \/ h.ramdisk_addr = 0
        IN /\ last.recon \in {"old", "new"}
           /\ last.recon = "new" <=> all_nonzero
           /\ last.recon = "old" <=> some_zero

C5_Witness ==
    /\ last.op = "read_header" /\ last.recon = "old"
    /\ ctx.loki_hdr.orig_kernel_size # 0 /\ ctx.loki_hdr.orig_ramdisk_size # 0

\* C6: after a read_header that returned RET_OK the segment table holds
\* KERNEL, RAMDISK for an old-style image, whatever dt_size is, and KERNEL,
\* RAMDISK followed by DEVICE_TREE exactly when dt_size # 0 for a new-style
\* image; no type occurs twice, however many times read_header was called.
C6_SegmentTable ==
    Accepted =>
        LET types == SegTypes(ctx.seg)
        IN /\ \A i, j \in 1..Len(types) : types[i] = types[j] => i = j
           /\ last.recon = "old" =>
                  types = <<ENTRY_TYPE_KERNEL, ENTRY_TYPE_RAMDISK>>
           /\ last.recon = "new" =>
                  types = IF ctx.hdr.dt_size # 0
                          THEN <<ENTRY_TYPE_KERNEL, ENTRY_TYPE_RAMDISK,
                                 ENTRY_TYPE_DEVICE_TREE>>
                          ELSE <<ENTRY_TYPE_KERNEL, ENTRY_TYPE_RAMDISK>>

C6_Witness ==
    /\ Accepted /\ last.recon = "old" /\ ctx.hdr.dt_size # 0
    /\ Len(ctx.seg) = 2

\* C7: for every accepted image the kernel offset is page_size, the ramdisk
\* offset is at least kernel offset + kernel size, and the segment offsets
\* do not decrease.
C7_OffsetsOrdered ==
    Accepted =>
        /\ ctx.seg[1].offset = ctx.hdr.page_size
        /\ ctx.seg[2].offset >= ctx.seg[1].offset + ctx.seg[1].size
        /\ \A i \in 1..(Len(ctx.seg) - 1) : ctx.seg[i].offset <= ctx.seg[i + 1].offset

AbootTail(hdr) == IF hdr.lg THEN hdr.page_size ELSE DEFAULT_ABOOT_SIZE

C9_PageSizePowerOfTwo ==
    Accepted => IsPowerOfTwo(ctx.hdr.page_size)

\* C9 as amended: the page size of an accepted image is nonzero.
C9_PageSizeNonzero ==
    Accepted => ctx.hdr.page_size > 0 /\ last.header.page_size = ctx.hdr.page_size

C9_Witness ==
    Accepted /\ ctx.hdr.page_size > 0 /\ ~IsPowerOfTwo(ctx.hdr.page_size)

\* C10: when the Android header held by the context has page_size = 0,
\* read_header returns RET_WARN from the reconstructor it dispatches to, the
\* reconstructor issues no stream operation, and the segment table is left
\* as it was.
C10_PageSizeZero ==
    [][(last'.op = "read_header" /\ ctx'.have_header_offset /\ ctx'.hdr.page_size = 0) =>
           /\ last'.recon \in {"old", "new"}
           /\ last'.ret = RET_WARN
           /\ last'.recon_io = 0
           /\ ctx'.seg = ctx.seg]_vars

C10_Witness ==
    /\ last.op = "read_header" /\ last.recon = "new" /\ last.ret = RET_WARN
    /\ ctx.have_header_offset /\ ctx.hdr.page_size = 0


\* C11: every failure of a stream seek or read reached from loki_reader_bid or
\* loki_reader_read_header comes back as a hard failure, FAILED when the
\* stream reports it as non-fatal and FATAL when it reports it as fatal; it is
\* never turned into WARN nor into a bid of 0.
C11_FailuresPropagate ==
    fault /= NoFault => last.ret = HardRet(fault)

\* what holds of the code: only the seek to LOKI_MAGIC_OFFSET is softened
C11_OnlyLokiSeekSoftened ==
    (fault /= NoFault /\ last.ret /= HardRet(fault))
        => /\ fault = [site |-> "loki_seek", fatal |-> FALSE]
           /\ last.ret = IF last.op = "bid" THEN 0 ELSE RET_WARN


\* the last call ran the old-image reconstructor past the page size check on a
\* stream without failures
OldRun ==
    /\ last.op = "read_header"
    /\ last.recon = "old"
    /\ fault = NoFault
    /\ ~PageSizeRejected(ctx.hdr)

\* what the steps of the old-image reconstructor find in the file
OldKernelSize == find_linux_kernel_size(img, ctx.hdr.page_size, NoFault)
OldGzip ==
    loki_old_find_gzip_offset(
        img, OldGzipStart(ctx.hdr, OldKernelSize.kernel_size), NoFault)
OldRamdiskOffset == ToU32(OldGzip.gzip_offset)
OldAbootOffset ==
    img.len - (IF is_lg_ramdisk_address(ctx.hdr) THEN ToI32(ctx.hdr.page_size)
                                                 ELSE DEFAULT_ABOOT_SIZE)

\* the ramdisk size step is reached and finds the ramdisk beyond the stash
BeyondAboot ==
    /\ OldRun
    /\ OldKernelSize.ret = RET_OK
    /\ OldGzip.ret = RET_OK
    /\ OldAbootOffset >= 0
    /\ OldRamdiskOffset > OldAbootOffset

\* C12: in the old-image reconstructor, when ramdisk_offset > aboot_offset,
\* read_header reports a format error, i.e. returns WARN, and installs no
\* segments.
C12_BeyondAbootIsWarn ==
    BeyondAboot => (last.ret = RET_WARN /\ ctx.seg = << >>)

\* what holds of the code: the call fails hard, and installs no segments
C12_BeyondAbootIsFailed ==
    BeyondAboot => (last.ret = RET_FAILED /\ ctx.seg = << >>)


\* C13: for every accepted old-style image the ramdisk size is
\* aboot_offset - ramdisk_offset with aboot_offset = file length - tail, tail
\* being page_size for the LG family and 0x200 otherwise; hence ramdisk
\* offset + ramdisk size = file length - tail, for every 64-bit gzip offset,
\* every file length and every 32-bit page size.
C13_RamdiskSize ==
    (Accepted /\ last.recon = "old") =>
        LET aboot_offset == img.len - AbootTail(ctx.hdr)
        IN /\ ctx.seg[2].size = aboot_offset - ctx.seg[2].offset
           /\ ctx.seg[2].offset + ctx.seg[2].size = img.len - AbootTail(ctx.hdr)

\* what holds of the code: the claim holds when the gzip offset fits 32 bits
\* and the tail fits a signed 32-bit integer
C13_RamdiskSizeNarrow ==
    (Accepted /\ last.recon = "old"
       /\ ctx.seg[2].offset < U32 /\ AbootTail(ctx.hdr) < I32Lim
       /\ img.len - AbootTail(ctx.hdr) - ctx.seg[2].offset < U32) =>
        /\ ctx.seg[2].size = (img.len - AbootTail(ctx.hdr)) - ctx.seg[2].offset
        /\ ctx.seg[2].offset + ctx.seg[2].size = img.len - AbootTail(ctx.hdr)


\* the last call accepted a new-style image
AcceptedNew == Accepted /\ last.recon = "new"

\* the end of segment i of the table
SegEnd(i) == ctx.seg[i].offset + ctx.seg[i].size

\* off is the first multiple of page_size at or after pos
FirstAlignedAtOrAfter(off, pos, page_size) ==
    off >= pos /\ off - pos < page_size /\ off % page_size = 0

\* C14 as claimed: for every accepted new-style image the kernel offset is
\* page_size, the ramdisk offset is the first page-aligned offset at or after
\* the kernel end, and when dt_size # 0 the device tree lies after the
\* page-aligned ramdisk end plus the placeholder; the ramdisk offset and the
\* device tree offset are multiples of page_size.
C14_NewLayoutAligned ==
    AcceptedNew =>
        LET page_size == ctx.hdr.page_size
        IN /\ ctx.seg[1].offset = page_size
           /\ FirstAlignedAtOrAfter(ctx.seg[2].offset, SegEnd(1), page_size)
           /\ ctx.hdr.dt_size # 0 =>
                  /\ FirstAlignedAtOrAfter(ctx.seg[3].offset - AbootTail(ctx.hdr),
                                           SegEnd(2), page_size)
                  /\ ctx.seg[3].offset % page_size = 0

\* C14 as amended: the kernel offset is page_size and the segment sizes are
\* the original sizes; the ramdisk starts less than a page after the kernel
\* end, and the device tree one placeholder after an offset less than a page
\* after the ramdisk end; when page_size is a power of two these offsets are
\* the first multiples of page_size at or after the kernel end and the
\* ramdisk end, and the device tree offset is a multiple of page_size when
\* the placeholder is one.
C14_NewLayout ==
    AcceptedNew =>
        LET page_size == ctx.hdr.page_size
            fake_size == AbootTail(ctx.hdr)
        IN /\ ctx.seg[1].offset = page_size
           /\ ctx.seg[1].size = ctx.loki_hdr.orig_kernel_size
           /\ ctx.seg[2].size = ctx.loki_hdr.orig_ramdisk_size
           /\ ctx.seg[2].offset >= SegEnd(1)
           /\ ctx.seg[2].offset - SegEnd(1) < page_size
           /\ IsPowerOfTwo(page_size) => ctx.seg[2].offset % page_size = 0
           /\ ctx.hdr.dt_size # 0 =>
                  /\ ctx.seg[3].offset - fake_size >= SegEnd(2)
                  /\ ctx.seg[3].offset - fake_size - SegEnd(2) < page_size
                  /\ IsPowerOfTwo(page_size) =>
                         (ctx.seg[3].offset - fake_size) % page_size = 0
                  /\ (IsPowerOfTwo(page_size) /\ fake_size % page_size = 0) =>
                         ctx.seg[3].offset % page_size = 0

\* an accepted new-style LG image with a device tree whose kernel and ramdisk
\* both need padding
C14_Witness ==
    /\ AcceptedNew
    /\ ctx.hdr.dt_size # 0 /\ ctx.hdr.lg /\ IsPowerOfTwo(ctx.hdr.page_size)
    /\ ctx.seg[2].offset > SegEnd(1)
    /\ ctx.seg[3].offset > SegEnd(2) + ctx.hdr.page_size


\* the last call ran the new-image reconstructor past the page size check on
\* a stream without failures, so its outcome is the outcome of the ramdisk
\* address recoverer with loki_hdr.ramdisk_addr # 0
NewRun ==
    /\ last.op = "read_header"
    /\ last.recon = "new"
    /\ fault = NoFault
    /\ ~PageSizeRejected(ctx.hdr)

\* the first occurrence of the shellcode pattern in the file
FirstShellcode ==
    CHOOSE s \in {img.shell[i] : i \in 1..Len(img.shell)} :
        \A i \in 1..Len(img.shell) : s.off <= img.shell[i].off

\* C15: when loki_hdr.ramdisk_addr # 0 the ramdisk address recoverer returns
\* OK with the value stored after the first occurrence of the shellcode
\* pattern, at whatever offset from 0 upward it occurs, and WARN if and only
\* if the pattern occurs nowhere in the file; for a new-style image the value
\* is the reconstructed ramdisk address.
C15_ShellcodeAddress ==
    NewRun =>
        IF img.shell = << >>
        THEN last.ret = RET_WARN
        ELSE /\ last.ret = RET_OK
             /\ last.header.ramdisk_address = FirstShellcode.addr

\* what holds of the code: an occurrence at offset 0 counts as none
C15_ShellcodeAddressNonzero ==
    NewRun =>
        IF img.shell = << >> \/ FirstShellcode.off = 0
        THEN last.ret = RET_WARN
        ELSE /\ last.ret = RET_OK
             /\ last.header.ramdisk_address = FirstShellcode.addr


OldSize == loki_old_find_ramdisk_size(img, ctx.hdr, OldRamdiskOffset, NoFault)

\* the old-image reconstructor reaches the ramdisk address recoverer, on a
\* stream without failures, with loki_hdr.ramdisk_addr = 0
JflteRun ==
    /\ OldRun
    /\ ctx.loki_hdr.ramdisk_addr = 0
    /\ OldKernelSize.ret = RET_OK
    /\ OldGzip.ret = RET_OK
    /\ OldSize.ret = RET_OK

JflteOverflow == ctx.hdr.kernel_addr > (U32 - 1) - JFLTE_RAMDISK_DELTA

\* C16: when loki_hdr.ramdisk_addr = 0 the ramdisk address recoverer does no
\* stream I/O and returns kernel_addr + 0x01FF8000 as an exact 32-bit value,
\* equal modulo 2^32 to kernel_addr - 0x00008000 + 0x02000000; when
\* kernel_addr > UINT32_MAX - 0x01FF8000 it returns WARN and produces no
\* address, so a wrapped address is never returned.
C16_JflteAddress ==
    JflteRun =>
        /\ last.recon_io = OldKernelSize.io + OldGzip.io + OldSize.io
        /\ IF JflteOverflow
           THEN last.ret = RET_WARN /\ last.header = NoHeader
           ELSE /\ last.ret = RET_OK
                /\ last.header.ramdisk_address
                       = ctx.hdr.kernel_addr + JFLTE_RAMDISK_DELTA
                /\ last.header.ramdisk_address < U32
                /\ last.header.ramdisk_address
                       = ToU32(ctx.hdr.kernel_addr - JFLTE_KERNEL_OFFSET
                               + JFLTE_RAMDISK_BASE)

\* the recoverer is reached with a kernel address too large for the default
C16_Witness == JflteRun /\ JflteOverflow /\ last.ret = RET_WARN


\* the gzip headers at or after the start offset whose flags byte is flags
GzipWithFlags(flags) ==
    {g \in {img.gzips[i] : i \in 1..Len(img.gzips)} :
        /\ g.off >= OldGzipStart(ctx.hdr, OldKernelSize.kernel_size)
        /\ g.flags = flags}

\* the first of a nonempty set of gzip headers
FirstGzip(S) == CHOOSE g \in S : \A h \in S : g.off <= h.off

\* the old-image reconstructor reaches the gzip offset finder on a stream
\* without failures
GzipRun == OldRun /\ OldKernelSize.ret = RET_OK

\* C17: the gzip offset finder returns the first header at or after the start
\* offset whose flags byte is 0x08 if there is one, otherwise the first whose
\* flags byte is 0x00, otherwise WARN; headers with other flags are ignored,
\* a later header never replaces the first of its kind, and a header with
\* flags 0x08 is chosen over one with flags 0x00 whichever comes first.
C17_GzipChoice ==
    /\ (Accepted /\ last.recon = "old") =>
           ctx.seg[2].offset =
               IF GzipWithFlags(8) # {} THEN FirstGzip(GzipWithFlags(8)).off
                                        ELSE FirstGzip(GzipWithFlags(0)).off
    /\ GzipRun =>
           /\ (GzipWithFlags(8) = {} /\ GzipWithFlags(0) = {}) =>
                  (last.ret = RET_WARN /\ last.recon_io = OldKernelSize.io + OldGzip.io)
           /\ (GzipWithFlags(8) # {} \/ GzipWithFlags(0) # {}) =>
                  last.recon_io > OldKernelSize.io + OldGzip.io

\* a header with flags 0x08 is chosen although one with flags 0x00 comes
\* first
C17_Witness ==
    /\ Accepted /\ last.recon = "old"
    /\ GzipWithFlags(8) # {} /\ GzipWithFlags(0) # {}
    /\ FirstGzip(GzipWithFlags(0)).off < ctx.seg[2].offset

=============================================================================
